---- MODULE Spec2Model ----
(***************************************************************************)
(* Model of the devstack homepage multiplexor: FrameManager (pane          *)
(* registry), StorageManager (localStorage adapter), UIManager             *)
(* (presentation controller), KeyboardManager (keyboard dispatch) and the  *)
(* App composition root.                                                   *)
(*                                                                         *)
(* The program state is carried in one record `st`; every method of the    *)
(* source is an operator from a state record to the state record the       *)
(* method leaves behind, so that a handler that calls other methods is the *)
(* composition of their operators.                                         *)
(***************************************************************************)
EXTENDS Integers, Sequences, FiniteSets, TLC

\* Bound on the id counter of one page session (createFrame is not offered
\* once nextId exceeds it).
MaxId == 3

\* Bound on the number of panes opened in the layout runs (SpecLayout).
MaxPanes == 10

\* Bound on the length of the pane lists handed to saveFrames (SpecStorage).
MaxList == 2

\* JavaScript null / undefined ("absent").
null == "null"

\* The service buttons of the page: Prometheus and Traefik embed, Grafana
\* opens in a new tab.
Catalog ==
  { [name |-> "prometheus", url |-> "/prometheus", embeddable |-> TRUE],
    [name |-> "traefik",    url |-> "/traefik",    embeddable |-> TRUE],
    [name |-> "grafana",    url |-> "/grafana",    embeddable |-> FALSE] }

\* localStorage keys
storageKey == "devstack-frames"
activeKey == "devstack-active-frame"

VARIABLES
  st,       \* the program state (see NewPage)
  session,  \* history: the ids createFrame returned in this page session, in order
  lastOp,   \* history: the last handler that ran
  pre       \* history: the program state before the last handler ran

vars == <<st, session, lastOp, pre>>

----------------------------------------------------------------------------
(* Generic helpers                                                         *)

Range(s) == { s[i] : i \in 1..Len(s) }

\* Array.prototype.indexOf, 0-based, -1 when absent
IndexOf(arr, x) ==
  IF \E i \in 1..Len(arr) : arr[i] = x
    THEN (CHOOSE i \in 1..Len(arr) : arr[i] = x /\ \A j \in 1..(i-1) : arr[j] # x) - 1
    ELSE -1

RemoveAt(s, i) == [j \in 1..(Len(s)-1) |-> IF j < i THEN s[j] ELSE s[j+1]]

\* Array.from(this.frames.keys())
Keys(frames) == [i \in 1..Len(frames) |-> frames[i].id]

----------------------------------------------------------------------------
(* FrameManager                                                            *)

\* `frame-${n}`
FrameId(n) == "frame-" \o ToString(n)

\* constructor of FrameManager, empty DOM grid, and a localStorage `ls`
NewPage(ls) ==
  [ frames        |-> <<>>,     \* Map id -> frame, in insertion order
    nextId        |-> 1,
    activeFrameId |-> null,
    grid          |-> <<>>,     \* children of #grid-container: [frameId, active]
    gridTemplate  |-> <<"1fr", "1fr">>,
    localStorage  |-> ls,
    handlers      |-> <<>>,     \* KeyboardManager.handlers: combo -> action
    enabled       |-> TRUE ]

FrameManager_createFrame(s, service) ==
  LET id == FrameId(s.nextId)
      frame == [id |-> id, service |-> service, url |-> service.url,
                element |-> FALSE, loaded |-> FALSE]
  IN [s EXCEPT !.nextId = s.nextId + 1,
               !.frames = Append(s.frames, frame)]

\* element.remove() that leaves the container in the grid
Mut_ElementRemove_stays(grid, id) == grid

\* frame.element.remove(): detach the container of frame `id` from the grid
ElementRemove(grid, id) == SelectSeq(grid, LAMBDA c : c.frameId # id)

\* removeFrame that forgets to move the active id off the removed pane
Mut_removeFrame_keepActive(s, id) ==
  LET i == IndexOf(Keys(s.frames), id) + 1
  IN [s EXCEPT !.grid = IF i > 0 /\ s.frames[i].element
                          THEN ElementRemove(s.grid, id) ELSE s.grid,
               !.frames = IF i > 0 THEN RemoveAt(s.frames, i) ELSE s.frames]

\* removeFrame that falls back to the latest remaining pane
Mut_removeFrame_lastRemaining(s, id) ==
  LET i == IndexOf(Keys(s.frames), id) + 1
      fr == IF i > 0 THEN RemoveAt(s.frames, i) ELSE s.frames
      remaining == Keys(fr)
  IN [s EXCEPT !.grid = IF i > 0 /\ s.frames[i].element
                          THEN ElementRemove(s.grid, id) ELSE s.grid,
               !.frames = fr,
               !.activeFrameId =
                  IF s.activeFrameId = id
                    THEN (IF Len(remaining) > 0 THEN remaining[Len(remaining)] ELSE null)
                    ELSE s.activeFrameId]

\* removeFrame that moves the active id to the first remaining pane on
\* every removal
Mut_removeFrame_alwaysReselect(s, id) ==
  LET i == IndexOf(Keys(s.frames), id) + 1
      fr == IF i > 0 THEN RemoveAt(s.frames, i) ELSE s.frames
      remaining == Keys(fr)
  IN [s EXCEPT !.grid = IF i > 0 /\ s.frames[i].element
                          THEN ElementRemove(s.grid, id) ELSE s.grid,
               !.frames = fr,
               !.activeFrameId = IF Len(remaining) > 0 THEN remaining[1] ELSE null]

FrameManager_removeFrame(s, id) ==
  LET i == IndexOf(Keys(s.frames), id) + 1
      g == IF i > 0 /\ s.frames[i].element THEN ElementRemove(s.grid, id) ELSE s.grid
      fr == IF i > 0 THEN RemoveAt(s.frames, i) ELSE s.frames
      remaining == Keys(fr)
  IN [s EXCEPT !.grid = g,
               !.frames = fr,
               !.activeFrameId =
                  IF s.activeFrameId = id
                    THEN (IF Len(remaining) > 0 THEN remaining[1] ELSE null)
                    ELSE s.activeFrameId]

\* this.frames.get(id): <<>> when undefined, <<frame>> otherwise
FrameManager_getFrame(s, id) == SelectSeq(s.frames, LAMBDA f : f.id = id)

FrameManager_getAllFrames(s) == s.frames

\* setActive that ignores an id that is not in the mapping
Mut_setActive_onlyKnown(s, id) ==
  IF id = null \/ FrameManager_getFrame(s, id) # <<>>
    THEN [s EXCEPT !.activeFrameId = id]
    ELSE s

FrameManager_setActive(s, id) == [s EXCEPT !.activeFrameId = id]

FrameManager_getActive(s) ==
  IF s.activeFrameId # null THEN FrameManager_getFrame(s, s.activeFrameId) ELSE <<>>

\* clear that also restarts the id counter
Mut_clear_resetNextId(s) ==
  [s EXCEPT !.grid = <<>>, !.frames = <<>>, !.activeFrameId = null, !.nextId = 1]

FrameManager_clear(s) ==
  [s EXCEPT !.grid = SelectSeq(s.grid, LAMBDA c :
                        ~ \E i \in 1..Len(s.frames) :
                            s.frames[i].element /\ s.frames[i].id = c.frameId),
            !.frames = <<>>,
            !.activeFrameId = null]

\* markLoaded that falls back to the newest pane when the id is gone
Mut_markLoaded_fallbackNewest(s, id) ==
  LET n == Len(s.frames)
      target == IF n > 0 /\ id \notin Range(Keys(s.frames)) THEN s.frames[n].id ELSE id
  IN [s EXCEPT !.frames = [i \in 1..n |->
                          IF s.frames[i].id = target
                            THEN [s.frames[i] EXCEPT !.loaded = TRUE]
                            ELSE s.frames[i]]]

\* markLoaded that flips the flag instead of setting it
Mut_markLoaded_toggle(s, id) ==
  [s EXCEPT !.frames = [i \in 1..Len(s.frames) |->
                          IF s.frames[i].id = id
                            THEN [s.frames[i] EXCEPT !.loaded = ~ s.frames[i].loaded]
                            ELSE s.frames[i]]]

FrameManager_markLoaded(s, id) ==
  [s EXCEPT !.frames = [i \in 1..Len(s.frames) |->
                          IF s.frames[i].id = id
                            THEN [s.frames[i] EXCEPT !.loaded = TRUE]
                            ELSE s.frames[i]]]

FrameManager_getFrameCount(s) == Len(s.frames)

\* getNextFrame that stops at the last pane instead of wrapping around
Mut_getNextFrame_noWrap(s) ==
  LET ids == Keys(s.frames)
      currentIndex == IndexOf(ids, s.activeFrameId)
      nextIndex == IF currentIndex + 1 >= Len(ids) THEN Len(ids) - 1 ELSE currentIndex + 1
  IN IF Len(ids) = 0 THEN <<>> ELSE <<s.frames[nextIndex + 1]>>

FrameManager_getNextFrame(s) ==
  LET ids == Keys(s.frames)
      currentIndex == IndexOf(ids, s.activeFrameId)
      nextIndex == (currentIndex + 1) % Len(ids)
  IN IF Len(ids) = 0 THEN <<>> ELSE <<s.frames[nextIndex + 1]>>

\* getPrevFrame that starts from the first pane when the active id is not
\* found
Mut_getPrevFrame_fromFirst(s) ==
  LET ids == Keys(s.frames)
      currentIndex == IndexOf(ids, s.activeFrameId)
      prevIndex == IF currentIndex = 0 THEN Len(ids) - 1
                   ELSE IF currentIndex < 0 THEN 0 ELSE currentIndex - 1
  IN IF Len(ids) = 0 THEN <<>> ELSE <<s.frames[prevIndex + 1]>>

FrameManager_getPrevFrame(s) ==
  LET ids == Keys(s.frames)
      currentIndex == IndexOf(ids, s.activeFrameId)
      prevIndex == IF currentIndex <= 0 THEN Len(ids) - 1 ELSE currentIndex - 1
  IN IF Len(ids) = 0 THEN <<>> ELSE <<s.frames[prevIndex + 1]>>

----------------------------------------------------------------------------
(* StorageManager                                                          *)

\* The browser's localStorage: `items` maps each key to <<>> (no item) or
\* <<value>>; `throws` is the set of its methods that throw when called
\* (setItem alone when the quota is exceeded, every method when access to
\* the storage is denied).
EmptyStorage ==
  [items |-> [k \in {storageKey, activeKey} |-> <<>>], throws |-> {}]

\* localStorage[method](...) throws
Throws(s, method) == method \in s.localStorage.throws

BoolText(b) == IF b THEN "true" ELSE "false"

\* JSON.stringify of an array of {service: {name, url, embeddable}, id}:
\* the text is modelled as the sequence of its tokens, the brackets and the
\* values of each entry (the empty string has no token).
RECURSIVE JSONitems(_)
JSONitems(data) ==
  IF data = <<>> THEN <<>>
  ELSE << data[1].service.name, data[1].service.url,
          BoolText(data[1].service.embeddable), data[1].id >>
       \o JSONitems(Tail(data))

JSONstringify(data) == <<"[">> \o JSONitems(data) \o <<"]">>

\* JSON.parse throws a SyntaxError on texts that are not such an array
JSONvalid(text) ==
  /\ Len(text) >= 2
  /\ text[1] = "["
  /\ text[Len(text)] = "]"
  /\ (Len(text) - 2) % 4 = 0
  /\ \A i \in 2..(Len(text) - 1) : text[i] \notin {"[", "]"}
  /\ \A i \in 2..(Len(text) - 1) : (i - 1) % 4 = 3 => text[i] \in {"true", "false"}

\* parse that reads every embeddable flag as true
RECURSIVE Mut_JSONentries_truthy(_)
Mut_JSONentries_truthy(tokens) ==
  IF Len(tokens) < 4 THEN <<>>
  ELSE << [service |-> [name |-> tokens[1], url |-> tokens[2], embeddable |-> TRUE],
           id |-> tokens[4]] >>
       \o Mut_JSONentries_truthy(SubSeq(tokens, 5, Len(tokens)))

RECURSIVE JSONentries(_)
JSONentries(tokens) ==
  IF Len(tokens) < 4 THEN <<>>
  ELSE << [service |-> [name |-> tokens[1], url |-> tokens[2],
                        embeddable |-> (tokens[3] = "true")],
           id |-> tokens[4]] >>
       \o JSONentries(SubSeq(tokens, 5, Len(tokens)))

\* JSON.parse of a valid text
JSONparse(text) == JSONentries(SubSeq(text, 2, Len(text) - 1))

\* saveFrames that writes the panes latest first
Mut_saveFrames_reversed(s, frames) ==
  LET n == Len(frames)
      data == [i \in 1..n |->
                 [service |-> frames[n + 1 - i].service, id |-> frames[n + 1 - i].id]]
  IN IF Throws(s, "setItem") THEN s
     ELSE [s EXCEPT !.localStorage.items[storageKey] = <<JSONstringify(data)>>]

StorageManager_saveFrames(s, frames) ==
  LET data == [i \in 1..Len(frames) |->
                 [service |-> frames[i].service, id |-> frames[i].id]]
  IN IF Throws(s, "setItem") THEN s        \* catch: return false
     ELSE [s EXCEPT !.localStorage.items[storageKey] = <<JSONstringify(data)>>]

\* the boolean saveFrames returns: false from its catch
StorageManager_saveFramesReturns(s, frames) == ~ Throws(s, "setItem")

StorageManager_loadFrames(s) ==
  LET data == s.localStorage.items[storageKey]
  IN IF Throws(s, "getItem") THEN <<>>     \* getItem throws: catch
     ELSE IF data = <<>> \/ data[1] = <<>> THEN <<>>    \* !data
     ELSE IF ~ JSONvalid(data[1]) THEN <<>>            \* JSON.parse throws: catch
     ELSE JSONparse(data[1])

StorageManager_clearFrames(s) ==
  IF Throws(s, "removeItem") THEN s
  ELSE [s EXCEPT !.localStorage.items[storageKey] = <<>>]

\* the boolean clearFrames returns
StorageManager_clearFramesReturns(s) == ~ Throws(s, "removeItem")

\* the boolean saveActiveFrame returns
StorageManager_saveActiveFrameReturns(s, frameId) == ~ Throws(s, "setItem")

StorageManager_saveActiveFrame(s, frameId) ==
  IF Throws(s, "setItem") THEN s
  ELSE [s EXCEPT !.localStorage.items[activeKey] = <<frameId>>]

StorageManager_loadActiveFrame(s) ==
  LET item == s.localStorage.items[activeKey]
  IN IF Throws(s, "getItem") THEN null
     ELSE IF item = <<>> THEN null ELSE item[1]

----------------------------------------------------------------------------
(* UIManager                                                               *)

\* square root rounded down instead of up
Mut_CeilSqrt_floor(count) ==
  CHOOSE c \in 0..count : c * c <= count /\ (c + 1) * (c + 1) > count

\* Math.ceil(Math.sqrt(count))
CeilSqrt(count) == CHOOSE c \in 0..count : c * c >= count /\ \A d \in 0..(c-1) : d * d < count

UIManager_updateGrid(s) ==
  LET count == FrameManager_getFrameCount(s)
  IN [s EXCEPT !.gridTemplate =
        IF count = 0 THEN <<"1fr", "1fr">>
        ELSE IF count = 1 THEN <<"1fr", "1fr">>
        ELSE IF count = 2 THEN <<"1fr 1fr", "1fr">>
        ELSE IF count = 3 THEN <<"1fr 1fr", "1fr 1fr">>
        ELSE IF count = 4 THEN <<"1fr 1fr", "1fr 1fr">>
        ELSE << "repeat(" \o ToString(CeilSqrt(count)) \o ", 1fr)", "auto" >>]

\* updateActiveState that does not take the marker off the other panes
Mut_updateActiveState_noClear(s) ==
  LET activeFrame == FrameManager_getActive(s)
  IN [s EXCEPT !.grid = [i \in 1..Len(s.grid) |->
        [s.grid[i] EXCEPT !.active =
           \/ s.grid[i].active
           \/ /\ activeFrame # <<>>
              /\ activeFrame[1].element
              /\ activeFrame[1].id = s.grid[i].frameId]]]

UIManager_updateActiveState(s) ==
  LET activeFrame == FrameManager_getActive(s)
  IN [s EXCEPT !.grid = [i \in 1..Len(s.grid) |->
        [s.grid[i] EXCEPT !.active =
           /\ activeFrame # <<>>
           /\ activeFrame[1].element
           /\ activeFrame[1].id = s.grid[i].frameId]]]

UIManager_saveState(s) ==
  LET s1 == StorageManager_saveFrames(s, FrameManager_getAllFrames(s))
      activeFrame == FrameManager_getActive(s1)
  IN IF activeFrame # <<>>
       THEN StorageManager_saveActiveFrame(s1, activeFrame[1].id)
       ELSE s1

\* createFrameElement: a container without the active class, carrying
\* dataset.frameId; its listeners are the actions OpenClick, CloseClick,
\* IframeLoad and ContainerClick below.
UIManager_createFrameElement(frame) == [frameId |-> frame.id, active |-> FALSE]

\* addFrame that does not select the new pane
Mut_addFrame_noSetActive(s, service) ==
  LET s1 == FrameManager_createFrame(s, service)
      n == Len(s1.frames)
      s2 == [s1 EXCEPT !.frames[n].element = TRUE,
                       !.grid = Append(s1.grid, UIManager_createFrameElement(s1.frames[n]))]
  IN UIManager_saveState(UIManager_updateActiveState(UIManager_updateGrid(s2)))

UIManager_addFrame(s, service) ==
  LET s1 == FrameManager_createFrame(s, service)
      n == Len(s1.frames)
      frame == s1.frames[n]
      element == UIManager_createFrameElement(frame)
      s2 == [s1 EXCEPT !.frames[n].element = TRUE,
                       !.grid = Append(s1.grid, element)]
      s3 == UIManager_updateGrid(s2)
      s4 == FrameManager_setActive(s3, frame.id)
      s5 == UIManager_updateActiveState(s4)
  IN UIManager_saveState(s5)

\* The click listener of a service button: the state it leaves, and the
\* urls it passes to window.open
\* service button that embeds every service
Mut_serviceButtonClick_alwaysAdd(s, service) == UIManager_addFrame(s, service)

UIManager_serviceButtonClick(s, service) ==
  IF service.embeddable THEN UIManager_addFrame(s, service) ELSE s

UIManager_serviceButtonOpens(service) ==
  IF service.embeddable THEN <<>> ELSE <<service.url>>

\* The click listener of a pane's open button: window.open(frame.url)
UIManager_openButtonOpens(frame) == <<frame.url>>

\* open button whose click bubbles up to the container's listener
Mut_openButtonClick_bubbles(s, id) ==
  UIManager_saveState(
    UIManager_updateActiveState(
      FrameManager_setActive(s, id)))

\* The click listener of a pane's open button: stopPropagation keeps the
\* container's listener from running, and window.open touches no state
UIManager_openButtonClick(s, id) == s

\* The click listener of a pane's container
UIManager_containerClick(s, id) ==
  UIManager_saveState(
    UIManager_updateActiveState(
      FrameManager_setActive(s, id)))

\* removeFrame that gives up when the store cannot be written
Mut_removeFrame_abortOnStoreFailure(s, id) ==
  IF Throws(s, "setItem") THEN s
  ELSE UIManager_saveState(
         UIManager_updateActiveState(
           UIManager_updateGrid(
             FrameManager_removeFrame(s, id))))

UIManager_removeFrame(s, id) ==
  UIManager_saveState(
    UIManager_updateActiveState(
      UIManager_updateGrid(
        FrameManager_removeFrame(s, id))))

RECURSIVE AddFrames(_, _)
AddFrames(s, savedFrames) ==
  IF savedFrames = <<>> THEN s
  ELSE AddFrames(UIManager_addFrame(s, savedFrames[1].service), Tail(savedFrames))

\* loadState that reads the stored active id before it recreates the panes
Mut_loadState_readActiveFirst(s) ==
  LET savedFrames == StorageManager_loadFrames(s)
      activeFrameId == StorageManager_loadActiveFrame(s)
      s1 == AddFrames(s, savedFrames)
  IN IF activeFrameId # null
       THEN UIManager_updateActiveState(FrameManager_setActive(s1, activeFrameId))
       ELSE s1

UIManager_loadState(s) ==
  LET savedFrames == StorageManager_loadFrames(s)
      s1 == AddFrames(s, savedFrames)
      activeFrameId == StorageManager_loadActiveFrame(s1)
  IN IF activeFrameId # null
       THEN UIManager_updateActiveState(FrameManager_setActive(s1, activeFrameId))
       ELSE s1

\* clearAll that leaves the stored pane list in place
Mut_clearAll_keepStored(s) ==
  UIManager_updateGrid([FrameManager_clear(s) EXCEPT !.grid = <<>>])

UIManager_clearAll(s) ==
  LET s1 == FrameManager_clear(s)
      s2 == [s1 EXCEPT !.grid = <<>>]
      s3 == StorageManager_clearFrames(s2)
  IN UIManager_updateGrid(s3)

UIManager_focusNext(s) ==
  LET next == FrameManager_getNextFrame(s)
  IN IF next # <<>>
       THEN UIManager_saveState(
              UIManager_updateActiveState(
                FrameManager_setActive(s, next[1].id)))
       ELSE s

UIManager_focusPrev(s) ==
  LET prev == FrameManager_getPrevFrame(s)
  IN IF prev # <<>>
       THEN UIManager_saveState(
              UIManager_updateActiveState(
                FrameManager_setActive(s, prev[1].id)))
       ELSE s

UIManager_removeActive(s) ==
  LET active == FrameManager_getActive(s)
  IN IF active # <<>> THEN UIManager_removeFrame(s, active[1].id) ELSE s

----------------------------------------------------------------------------
(* KeyboardManager                                                         *)

\* String.prototype.toLowerCase on the key names that occur
ToLowerCase(k) ==
  CASE k = "C" -> "c"
    [] k = "N" -> "n"
    [] k = "P" -> "p"
    [] k = "W" -> "w"
    [] OTHER -> k

\* Array.prototype.join
RECURSIVE Join(_, _)
Join(parts, sep) ==
  IF parts = <<>> THEN ""
  ELSE IF Len(parts) = 1 THEN parts[1]
  ELSE parts[1] \o sep \o Join(Tail(parts), sep)

KeyboardManager_getKeyCombo(e) ==
  LET p1 == IF e.ctrlKey THEN <<"ctrl">> ELSE <<>>
      p2 == IF e.altKey THEN Append(p1, "alt") ELSE p1
      p3 == IF e.shiftKey THEN Append(p2, "shift") ELSE p2
      parts == Append(p3, ToLowerCase(e.key))
  IN Join(parts, "+")

\* register that keeps the handler a combo already has
Mut_register_keepFirst(s, keyCombo, handler) ==
  [s EXCEPT !.handlers = [c \in (DOMAIN s.handlers) \cup {keyCombo} |->
                            IF c \in DOMAIN s.handlers THEN s.handlers[c] ELSE handler]]

KeyboardManager_register(s, keyCombo, handler) ==
  [s EXCEPT !.handlers = [c \in (DOMAIN s.handlers) \cup {keyCombo} |->
                            IF c = keyCombo THEN handler ELSE s.handlers[c]]]

KeyboardManager_enable(s) == [s EXCEPT !.enabled = TRUE]

KeyboardManager_disable(s) == [s EXCEPT !.enabled = FALSE]

\* lookup that does not test this.enabled
Mut_lookup_ignoreEnabled(s, e) ==
  LET key == KeyboardManager_getKeyCombo(e)
  IN IF key \in DOMAIN s.handlers THEN s.handlers[key] ELSE null

\* The handler the keydown listener finds for event e (null: none, or disabled)
KeyboardManager_lookup(s, e) ==
  LET key == KeyboardManager_getKeyCombo(e)
  IN IF ~ s.enabled THEN null
     ELSE IF key \in DOMAIN s.handlers THEN s.handlers[key] ELSE null

----------------------------------------------------------------------------
(* App                                                                     *)

\* The closures registered by App.setupKeyboardShortcuts, by name
Invoke(s, handler) ==
  CASE handler = "focusNext"    -> UIManager_focusNext(s)
    [] handler = "focusPrev"    -> UIManager_focusPrev(s)
    [] handler = "removeActive" -> UIManager_removeActive(s)
    [] handler = "clearAll"     -> UIManager_clearAll(s)
    [] handler = "chatToggle"   -> s     \* ChatManager.toggle: no pane state
    [] OTHER -> s

App_setupKeyboardShortcuts(s) ==
  LET s1 == KeyboardManager_register(s,  "ctrl+n", "focusNext")
      s2 == KeyboardManager_register(s1, "ctrl+p", "focusPrev")
      s3 == KeyboardManager_register(s2, "ctrl+w", "removeActive")
      s4 == KeyboardManager_register(s3, "ctrl+shift+c", "clearAll")
  IN KeyboardManager_register(s4, "ctrl+/", "chatToggle")

\* The keydown listener calls e.preventDefault() exactly when it found a handler
KeyboardManager_preventsDefault(s, e) == KeyboardManager_lookup(s, e) # null

\* The keydown listener installed by KeyboardManager.init
KeyboardManager_keydown(s, e) ==
  LET handler == KeyboardManager_lookup(s, e)
  IN IF handler # null THEN Invoke(s, handler) ELSE s

\* new App().init() on a page whose localStorage is ls
App_init(ls) == UIManager_loadState(App_setupKeyboardShortcuts(NewPage(ls)))

----------------------------------------------------------------------------
(* Events                                                                  *)

Ev(ctrl, alt, shift, key) ==
  [ctrlKey |-> ctrl, altKey |-> alt, shiftKey |-> shift, key |-> key]

\* The key presses of the four pane shortcuts (with shift held the browser
\* reports the key as "C")
PaneKeyEvents ==
  { Ev(TRUE, FALSE, FALSE, "n"), Ev(TRUE, FALSE, FALSE, "p"),
    Ev(TRUE, FALSE, FALSE, "w"), Ev(TRUE, FALSE, TRUE, "C") }

\* A sample of the key-press stream: the bound combinations and near misses
KeyEvents ==
  PaneKeyEvents \cup
  { Ev(TRUE, FALSE, FALSE, "/"),
    Ev(FALSE, FALSE, FALSE, "n"), Ev(TRUE, TRUE, FALSE, "n"),
    Ev(TRUE, FALSE, FALSE, "c") }

Embeddable == { sv \in Catalog : sv.embeddable }

\* ids of the containers attached to the grid
Rendered(s) == { s.grid[i].frameId : i \in 1..Len(s.grid) }

\* The record of a handler run: the operation it performed, how it was
\* triggered, its argument, the urls it passed to window.open and whether
\* it called preventDefault on its event.
Op(op, via, arg) ==
  [op |-> op, via |-> via, arg |-> arg, opened |-> <<>>, prevented |-> FALSE]

Init ==
  /\ st = App_init(EmptyStorage)
  /\ session = <<>>
  /\ lastOp = Op("init", "load", null)
  /\ pre = st

\* click on a service button (setupServiceButtons)
ServiceClick(service) ==
  /\ service.embeddable => st.nextId <= MaxId
  /\ st' = UIManager_serviceButtonClick(st, service)
  /\ session' = IF service.embeddable
                  THEN Append(session, st'.frames[Len(st'.frames)].id)
                  ELSE session
  /\ lastOp' = [Op(IF service.embeddable THEN "addFrame" ELSE "serviceOpen",
                     "click", service.name)
                  EXCEPT !.opened = UIManager_serviceButtonOpens(service)]
  /\ pre' = st

\* click on the open button of a rendered pane
OpenClick(id) ==
  /\ id \in Rendered(st)
  /\ st' = UIManager_openButtonClick(st, id)
  /\ lastOp' = [Op("openExternally", "click", id)
                  EXCEPT !.opened = UIManager_openButtonOpens(FrameManager_getFrame(st, id)[1])]
  /\ pre' = st
  /\ UNCHANGED session

\* click on the close button of a rendered pane
CloseClick(id) ==
  /\ id \in Rendered(st)
  /\ st' = UIManager_removeFrame(st, id)
  /\ lastOp' = Op("close", "click", id)
  /\ pre' = st
  /\ UNCHANGED session

\* click on the body of a rendered pane
ContainerClick(id) ==
  /\ id \in Rendered(st)
  /\ st' = UIManager_containerClick(st, id)
  /\ lastOp' = Op("select", "click", id)
  /\ pre' = st
  /\ UNCHANGED session

\* load event of the iframe of a pane created in this session
IframeLoad(id) ==
  /\ id \in Range(session)
  /\ st' = FrameManager_markLoaded(st, id)
  /\ lastOp' = Op("markLoaded", "load", id)
  /\ pre' = st
  /\ UNCHANGED session

\* keydown event on the document
KeyDown(e) ==
  /\ st' = KeyboardManager_keydown(st, e)
  /\ lastOp' = [Op(KeyboardManager_lookup(st, e), "key", e)
                  EXCEPT !.prevented = KeyboardManager_preventsDefault(st, e)]
  /\ pre' = st
  /\ UNCHANGED session

\* click on the clear-all button (setupClearButton)
ClearClick ==
  /\ st' = UIManager_clearAll(st)
  /\ lastOp' = Op("clearAll", "click", null)
  /\ pre' = st
  /\ UNCHANGED session

\* page reload: DOMContentLoaded runs App.init against the same localStorage
Reload ==
  /\ st' = App_init(st.localStorage)
  /\ session' = Keys(st'.frames)
  /\ lastOp' = Op("loadState", "load", null)
  /\ pre' = st

Next ==
  \/ \E service \in Catalog : ServiceClick(service)
  \/ \E id \in Rendered(st) : OpenClick(id)
  \/ \E id \in Rendered(st) : CloseClick(id)
  \/ \E id \in Rendered(st) : ContainerClick(id)
  \/ \E id \in Range(session) : IframeLoad(id)
  \/ \E e \in KeyEvents : KeyDown(e)
  \/ ClearClick
  \/ Reload

Spec == Init /\ [][Next]_vars

----------------------------------------------------------------------------
(* The registry driven directly, next to the controller, in one page       *)
(* session                                                                 *)

\* frameManager.createFrame(service) called on its own
CreatePane(service) ==
  /\ st.nextId <= MaxId
  /\ st' = FrameManager_createFrame(st, service)
  /\ session' = Append(session, st'.frames[Len(st'.frames)].id)
  /\ lastOp' = Op("createPane", "call", service.name)
  /\ pre' = st

\* frameManager.removeFrame(id) called on its own, for a present or a
\* removed id
RemovePane(id) ==
  /\ id \in Range(session)
  /\ st' = FrameManager_removeFrame(st, id)
  /\ lastOp' = Op("removePane", "call", id)
  /\ pre' = st
  /\ UNCHANGED session

NextRegistry ==
  \/ \E service \in Embeddable : CreatePane(service)
  \/ \E id \in Range(session) : RemovePane(id)
  \/ \E service \in Catalog : ServiceClick(service)
  \/ \E id \in Rendered(st) : CloseClick(id)
  \/ \E id \in Rendered(st) : ContainerClick(id)
  \/ \E e \in PaneKeyEvents : KeyDown(e)
  \/ ClearClick

SpecRegistry == Init /\ [][NextRegistry]_vars

----------------------------------------------------------------------------
(* The grid filled up to MaxPanes panes                                    *)

\* click on the button of an embeddable service, up to MaxPanes panes
OpenPane(service) ==
  /\ st.nextId <= MaxPanes
  /\ st' = UIManager_serviceButtonClick(st, service)
  /\ session' = Append(session, st'.frames[Len(st'.frames)].id)
  /\ lastOp' = [Op("addFrame", "click", service.name)
                  EXCEPT !.opened = UIManager_serviceButtonOpens(service)]
  /\ pre' = st

NextLayout ==
  \/ \E service \in Embeddable : OpenPane(service)
  \/ ClearClick

SpecLayout == Init /\ [][NextLayout]_vars

----------------------------------------------------------------------------
(* The storage adapter driven directly                                     *)

\* panes as FrameManager holds them, rendered and loaded
PaneSet ==
  { [id |-> id, service |-> sv, url |-> sv.url, element |-> TRUE, loaded |-> TRUE] :
      id \in {FrameId(1), FrameId(2)},
      sv \in { c \in Catalog : c.name \in {"prometheus", "grafana"} } }

\* the pane lists of at most n panes
RECURSIVE PaneListsUpTo(_)
PaneListsUpTo(n) ==
  IF n = 0 THEN { <<>> }
  ELSE PaneListsUpTo(n - 1) \cup
       { Append(l, f) : l \in { m \in PaneListsUpTo(n - 1) : Len(m) = n - 1 }, f \in PaneSet }

PaneLists == PaneListsUpTo(MaxList)

\* values of the 'devstack-frames' item that JSON.parse rejects or that are
\* empty: the empty string, a lone brace, a truncated array, a bad literal
ForeignTexts ==
  { <<>>, <<"{">>, <<"[", "prometheus", "/prometheus">>,
    <<"[", "prometheus", "/prometheus", "tru", "frame-1", "]">> }

\* storageManager.saveFrames(panes) called on its own
SaveFramesCall(panes) ==
  /\ st' = StorageManager_saveFrames(st, panes)
  /\ lastOp' = Op("saveFrames", "call", panes)
  /\ pre' = st
  /\ UNCHANGED session

\* storageManager.clearFrames() called on its own
ClearFramesCall ==
  /\ st' = StorageManager_clearFrames(st)
  /\ lastOp' = Op("clearFrames", "call", null)
  /\ pre' = st
  /\ UNCHANGED session

\* something else (another script, the user) sets the 'devstack-frames' item
ForeignWrite(text) ==
  /\ st' = [st EXCEPT !.localStorage.items[storageKey] = <<text>>]
  /\ lastOp' = Op("foreignWrite", "call", text)
  /\ pre' = st
  /\ UNCHANGED session

NextStorage ==
  \/ \E panes \in PaneLists : SaveFramesCall(panes)
  \/ ClearFramesCall
  \/ \E text \in ForeignTexts : ForeignWrite(text)

SpecStorage == Init /\ [][NextStorage]_vars

----------------------------------------------------------------------------
(* Keyboard dispatch with registration and the enable / disable gate       *)

\* keyboardManager.register(keyCombo, handler) called after start-up
RegisterCall(keyCombo, handler) ==
  /\ st' = KeyboardManager_register(st, keyCombo, handler)
  /\ lastOp' = Op("register", "call", <<keyCombo, handler>>)
  /\ pre' = st
  /\ UNCHANGED session

\* keyboardManager.enable()
EnableCall ==
  /\ st' = KeyboardManager_enable(st)
  /\ lastOp' = Op("enable", "call", null)
  /\ pre' = st
  /\ UNCHANGED session

\* keyboardManager.disable()
DisableCall ==
  /\ st' = KeyboardManager_disable(st)
  /\ lastOp' = Op("disable", "call", null)
  /\ pre' = st
  /\ UNCHANGED session

NextKeyboard ==
  \/ \E service \in Catalog : ServiceClick(service)
  \/ \E e \in KeyEvents : KeyDown(e)
  \/ \E keyCombo \in {"ctrl+n", "ctrl+alt+n"}, handler \in {"focusPrev", "clearAll"} :
       RegisterCall(keyCombo, handler)
  \/ EnableCall
  \/ DisableCall

SpecKeyboard == Init /\ [][NextKeyboard]_vars

----------------------------------------------------------------------------
(* The controller over a store that can fail                               *)

\* the ways localStorage fails: the quota is exceeded (setItem throws) or
\* access to the storage is denied (every method throws)
FailureModes == { {"setItem"}, {"setItem", "getItem", "removeItem"} }

\* localStorage starts throwing
StorageBreak(methods) ==
  /\ st.localStorage.throws = {}
  /\ st' = [st EXCEPT !.localStorage.throws = methods]
  /\ lastOp' = Op("storageBreak", "env", null)
  /\ pre' = st
  /\ UNCHANGED session

\* localStorage works again
StorageRepair ==
  /\ st.localStorage.throws # {}
  /\ st' = [st EXCEPT !.localStorage.throws = {}]
  /\ lastOp' = Op("storageRepair", "env", null)
  /\ pre' = st
  /\ UNCHANGED session

NextFail ==
  \/ \E service \in Embeddable : ServiceClick(service)
  \/ \E id \in Rendered(st) : CloseClick(id)
  \/ \E id \in Rendered(st) : ContainerClick(id)
  \/ \E e \in PaneKeyEvents : KeyDown(e)
  \/ ClearClick
  \/ \E methods \in FailureModes : StorageBreak(methods)
  \/ StorageRepair

SpecFail == Init /\ [][NextFail]_vars

\* Panes opened and closed and the page reloaded, over a store that can
\* fail
NextRestart ==
  \/ \E service \in Embeddable : ServiceClick(service)
  \/ \E id \in Rendered(st) : CloseClick(id)
  \/ \E methods \in FailureModes : StorageBreak(methods)
  \/ StorageRepair
  \/ Reload

SpecRestart == Init /\ [][NextRestart]_vars

----------------------------------------------------------------------------
(* The registry called with arbitrary ids, next to next/previous-pane      *)
(* navigation                                                              *)

\* the ids a caller can name: every id the counter can issue
Ids == { FrameId(n) : n \in 1..MaxId }

\* frameManager.setActive(id) called on its own, with any id or null
SetActiveCall(id) ==
  /\ st' = FrameManager_setActive(st, id)
  /\ lastOp' = Op("setActive", "call", id)
  /\ pre' = st
  /\ UNCHANGED session

NextDirect ==
  \/ \E service \in Embeddable : CreatePane(service)
  \/ \E id \in Range(session) : RemovePane(id)
  \/ \E id \in Ids \cup {null} : SetActiveCall(id)
  \/ \E e \in { Ev(TRUE, FALSE, FALSE, "n"), Ev(TRUE, FALSE, FALSE, "p") } : KeyDown(e)

SpecDirect == Init /\ [][NextDirect]_vars

----------------------------------------------------------------------------
(* Properties                                                              *)

KeySet(s) == Range(Keys(s.frames))

Services(frames) == [i \in 1..Len(frames) |-> frames[i].service]

Projection(frames) ==
  [i \in 1..Len(frames) |-> [service |-> frames[i].service, id |-> frames[i].id]]

\* the counter n an id `frame-${n}` was formatted from
CounterOf(id) == CHOOSE n \in 1..(MaxId + 1) : FrameId(n) = id

\* the handlers that reach FrameManager.removeFrame
RemoveOps == {"removePane", "close", "removeActive"}

\* the mutating operations of the controller
MutatingOps ==
  {"addFrame", "close", "select", "focusNext", "focusPrev", "removeActive", "clearAll"}

\* the id the last handler passed to FrameManager.removeFrame
RemovedId == IF lastOp.op = "removeActive" THEN pre.activeFrameId ELSE lastOp.arg

\* the last handler called FrameManager.removeFrame with the active id
RemovedTheActive ==
  /\ lastOp.op \in RemoveOps
  /\ lastOp.op = "removeActive" => FrameManager_getActive(pre) # <<>>
  /\ RemovedId = pre.activeFrameId

\* C1: in one page session that starts with an empty registry, after every
\* createPane, removePane, addPane, close, select, focusNext, focusPrev,
\* removeActive and clearAll the active id is null or a key of the mapping.
C1_ActiveNullOrKey ==
  st.activeFrameId = null \/ st.activeFrameId \in KeySet(st)

C1_Witness ==
  /\ RemovedTheActive
  /\ pre.activeFrameId \in KeySet(pre)
  /\ Len(st.frames) >= 1
  /\ st.activeFrameId \in KeySet(st)

\* C2: in every reachable state, page reloads included, a non-null active
\* id references an existing entry of the mapping.
C2_ActiveReferencesEntry ==
  st.activeFrameId # null => FrameManager_getFrame(st, st.activeFrameId) # <<>>

\* C3: removePane of the active id makes the earliest-inserted remaining
\* pane active, or makes the active id null when no pane remains.
C3_RemoveActiveSelectsEarliest ==
  LET rest == SelectSeq(Keys(pre.frames), LAMBDA k : k # RemovedId)
  IN RemovedTheActive =>
       st.activeFrameId = (IF rest # <<>> THEN rest[1] ELSE null)

C3_Witness ==
  /\ lastOp.op = "removePane"
  /\ Len(pre.frames) = 3
  /\ lastOp.arg = pre.frames[2].id
  /\ pre.activeFrameId = pre.frames[2].id
  /\ st.activeFrameId = pre.frames[1].id
  /\ Keys(st.frames) = <<pre.frames[1].id, pre.frames[3].id>>

\* nextPane / prevPane followed by setActive of the result
NavNext(s) == FrameManager_setActive(s, FrameManager_getNextFrame(s)[1].id)

NavPrev(s) == FrameManager_setActive(s, FrameManager_getPrevFrame(s)[1].id)

RECURSIVE NavNextTimes(_, _)
NavNextTimes(s, n) == IF n = 0 THEN s ELSE NavNextTimes(NavNext(s), n - 1)

\* C4: with N >= 1 panes and the active id on one of them, N next-pane
\* navigations return to the starting pane, and prev-pane navigation is the
\* inverse of next-pane navigation; focusNext and focusPrev navigate so.
C4_CyclicTraversal ==
  /\ (Len(st.frames) >= 1 /\ st.activeFrameId \in KeySet(st)) =>
       /\ NavNextTimes(st, Len(st.frames)).activeFrameId = st.activeFrameId
       /\ NavPrev(NavNext(st)).activeFrameId = st.activeFrameId
       /\ NavNext(NavPrev(st)).activeFrameId = st.activeFrameId
  /\ (Len(pre.frames) >= 1 /\ pre.activeFrameId \in KeySet(pre)) =>
       /\ lastOp.op = "focusNext" => st.activeFrameId = NavNext(pre).activeFrameId
       /\ lastOp.op = "focusPrev" => st.activeFrameId = NavPrev(pre).activeFrameId

C4_Witness ==
  /\ lastOp.op = "focusNext"
  /\ Len(st.frames) = 3
  /\ pre.activeFrameId = st.frames[3].id
  /\ st.activeFrameId = st.frames[1].id

\* C5: loadState after a reload recreates one pane per stored entry, in the
\* stored order, each with loaded = false, and the services of the registry
\* are those the registry had when the snapshot was written.
C5_ReloadRecreatesPanes ==
  lastOp.op = "loadState" =>
    LET saved == StorageManager_loadFrames(pre)
    IN /\ Len(st.frames) = Len(saved)
       /\ \A i \in 1..Len(st.frames) :
            /\ st.frames[i].service = saved[i].service
            /\ st.frames[i].loaded = FALSE
       /\ Services(st.frames) = Services(pre.frames)

C5_Witness ==
  /\ lastOp.op = "loadState"
  /\ Len(st.frames) = 2
  /\ st.frames[1].service # st.frames[2].service
  /\ pre.frames[1].loaded
  /\ Keys(pre.frames) # Keys(st.frames)

\* C6: loadState sets the active id to the active-pane id that the store
\* held when loadState began.
C6_LoadStateRestoresStoredActive ==
  lastOp.op = "loadState" =>
    st.activeFrameId = StorageManager_loadActiveFrame(pre)

\* C7: when the active-pane id the store held at the start of loadState is
\* the id of none of the recreated panes, after loadState no rendered pane
\* carries the active marker, getActive() is absent and the active id is
\* that stored id.
C7_DanglingActiveKept ==
  LET stored == StorageManager_loadActiveFrame(pre)
  IN (lastOp.op = "loadState" /\ stored # null /\ stored \notin KeySet(st)) =>
       /\ \A i \in 1..Len(st.grid) : ~ st.grid[i].active
       /\ FrameManager_getActive(st) = <<>>
       /\ st.activeFrameId = stored

\* C8: ctrl+shift+c and the clear-all control leave the same state, with
\* an empty registry, a null active id and a cleared store: loadFrames()
\* returns the empty sequence and loadActiveFrame() returns absent.
C8_ClearAllClearsSnapshot ==
  lastOp.op = "clearAll" =>
    /\ lastOp.via = "key" => st = UIManager_clearAll(pre)
    /\ st.frames = <<>>
    /\ st.activeFrameId = null
    /\ StorageManager_loadFrames(st) = <<>>
    /\ StorageManager_loadActiveFrame(st) = null

\* C9: in one page session the ids createPane returns have strictly
\* increasing counters, so none repeats an earlier one, removed and cleared
\* panes included, and no two entries of the mapping share an id.
C9_IdsIncreasingAndUnique ==
  /\ \A i, j \in 1..Len(session) :
       i < j => CounterOf(session[i]) < CounterOf(session[j])
  /\ \A i, j \in 1..Len(st.frames) :
       i # j => st.frames[i].id # st.frames[j].id
  /\ KeySet(st) \subseteq Range(session)

C9_Witness ==
  /\ lastOp.op \in {"createPane", "addFrame"}
  /\ pre.frames = <<>>
  /\ Len(session) = 3
  /\ Keys(st.frames) = <<session[3]>>

\* C10: after addPane, close, select, focusNext, focusPrev, removeActive and
\* clearAll, loadFrames() returns the {service, id} projection of the
\* registry's panes in insertion order.
C10_StoredFramesMatchRegistry ==
  lastOp.op \in MutatingOps =>
    StorageManager_loadFrames(st) = Projection(st.frames)

C10_Witness ==
  /\ lastOp.op = "close"
  /\ Len(pre.frames) = 3
  /\ lastOp.arg = pre.frames[2].id
  /\ StorageManager_loadFrames(st) = Projection(st.frames)
  /\ Len(st.frames) = 2

\* C11: after addPane, close, select, focusNext, focusPrev, removeActive and
\* clearAll, the stored active-pane id equals the registry's active id and
\* is absent from the store when the registry's active id is null.
C11_StoredActiveMatchesRegistry ==
  lastOp.op \in MutatingOps =>
    StorageManager_loadActiveFrame(st) = st.activeFrameId

\* C12: within a page session a pane's loaded flag never goes from true to
\* false; markLoaded on a loaded pane, or on an id that is no longer in the
\* registry, leaves the whole state unchanged, and markLoaded on a pane of
\* the registry sets its flag and changes neither the keys nor the active id.
C12_LoadedOnlyRises ==
  /\ lastOp.op # "loadState" =>
       \A i \in 1..Len(pre.frames) : \A j \in 1..Len(st.frames) :
         (pre.frames[i].id = st.frames[j].id /\ pre.frames[i].loaded)
           => st.frames[j].loaded
  /\ lastOp.op = "markLoaded" =>
       LET was == FrameManager_getFrame(pre, lastOp.arg)
       IN /\ was = <<>> => st = pre
          /\ (was # <<>> /\ was[1].loaded) => st = pre
          /\ was # <<>> =>
               /\ FrameManager_getFrame(st, lastOp.arg)[1].loaded
               /\ Keys(st.frames) = Keys(pre.frames)
               /\ st.activeFrameId = pre.activeFrameId

C12_Witness ==
  /\ lastOp.op = "markLoaded"
  /\ lastOp.arg \notin KeySet(pre)
  /\ \E i \in 1..Len(st.frames) : st.frames[i].loaded
  /\ \E i \in 1..Len(st.frames) : ~ st.frames[i].loaded

\* the operations of the controller, loadState included
ControllerOps == MutatingOps \cup {"loadState"}

\* the ids of the rendered panes that carry the active marker
Marked(s) == { s.grid[i].frameId : i \in { j \in 1..Len(s.grid) : s.grid[j].active } }

\* C15: after every controller operation at most one rendered pane carries
\* the active marker, and the panes carrying it are exactly getActive()
\* when it returns a pane and none otherwise.
C15_OneMarkerOnActive ==
  lastOp.op \in ControllerOps =>
    LET a == FrameManager_getActive(st)
    IN /\ Cardinality({ i \in 1..Len(st.grid) : st.grid[i].active }) <= 1
       /\ Marked(st) = (IF a # <<>> THEN {a[1].id} ELSE {})

C15_Witness ==
  /\ lastOp.op = "select"
  /\ Len(st.frames) = 3
  /\ pre.activeFrameId # st.activeFrameId
  /\ Marked(pre) = {pre.activeFrameId}
  /\ Marked(st) = {st.activeFrameId}

\* C16: addPane places the new pane last in traversal order and makes it
\* active; with three or more panes, prev-pane navigation from it selects
\* the pane before it, then the one before that, and next-pane navigation
\* then selects the former again.
C16_NewPaneActiveAndLast ==
  lastOp.op = "addFrame" =>
    LET n == Len(st.frames)
        p1 == UIManager_focusPrev(st)
        p2 == UIManager_focusPrev(p1)
        n3 == UIManager_focusNext(p2)
    IN /\ n = Len(pre.frames) + 1
       /\ Keys(st.frames) = Append(Keys(pre.frames), st.frames[n].id)
       /\ st.activeFrameId = st.frames[n].id
       /\ n >= 3 =>
            /\ p1.activeFrameId = st.frames[n - 1].id
            /\ p2.activeFrameId = st.frames[n - 2].id
            /\ n3.activeFrameId = st.frames[n - 1].id

C16_Witness ==
  /\ lastOp.op = "addFrame"
  /\ Keys(st.frames) = <<FrameId(1), FrameId(2), FrameId(3)>>
  /\ st.activeFrameId = FrameId(3)

\* C17: a click on the button of a non-embeddable service leaves the whole
\* state unchanged (mapping, active id, id counter, rendered panes, store)
\* and issues exactly one window.open, for the service's url; a click that
\* adds a pane issues none, and every pane has an embeddable service.
C17_NonEmbeddableBypassesPanes ==
  /\ lastOp.op = "serviceOpen" =>
       /\ st = pre
       /\ \E sv \in Catalog :
            /\ sv.name = lastOp.arg
            /\ ~ sv.embeddable
            /\ lastOp.opened = <<sv.url>>
  /\ lastOp.op = "addFrame" => lastOp.opened = <<>>
  /\ \A i \in 1..Len(st.frames) : st.frames[i].service.embeddable

C17_Witness ==
  /\ lastOp.op = "serviceOpen"
  /\ lastOp.opened = <<"/grafana">>
  /\ Len(st.frames) >= 1

\* the grid-template value of c equal tracks written out: "1fr 1fr ..."
FrTracks(c) == Join([i \in 1..c |-> "1fr"], " ")

\* the number of columns a grid-template-columns value lays out
ColumnsOf(template) ==
  CHOOSE c \in 1..(MaxPanes + 1) :
    template = FrTracks(c) \/ template = "repeat(" \o ToString(c) \o ", 1fr)"

\* the rows of a grid-template-rows value: "auto", or their number
RowsOf(template) ==
  IF template = "auto" THEN "auto"
  ELSE ToString(CHOOSE r \in 1..(MaxPanes + 1) : template = FrTracks(r))

\* the least c with c * c >= n
LeastSquareSide(n) == CHOOSE c \in 0..n : c * c >= n /\ \A d \in 0..n : d * d >= n => c <= d

\* C13: the layout depends on the pane count n only: 1 column and 1 row for
\* n in {0, 1}, 2 and 1 for n = 2, 2 and 2 for n in {3, 4}, and for n >= 5
\* the least c with c * c >= n columns and automatic rows (3 columns for 5
\* and for 9, 4 for 10).
C13_LayoutByCount ==
  LET n == Len(st.frames)
      columns == ColumnsOf(st.gridTemplate[1])
      rows == RowsOf(st.gridTemplate[2])
  IN /\ n \in {0, 1} => (columns = 1 /\ rows = "1")
     /\ n = 2 => (columns = 2 /\ rows = "1")
     /\ n \in {3, 4} => (columns = 2 /\ rows = "2")
     /\ n >= 5 => (columns = LeastSquareSide(n) /\ rows = "auto")
     /\ n \in {5, 9} => columns = 3
     /\ n = 10 => columns = 4

C13_Witness ==
  /\ lastOp.op = "addFrame"
  /\ Len(st.frames) = 10
  /\ st.gridTemplate = <<"repeat(4, 1fr)", "auto">>

\* C14: saveFrames(panes) followed by loadFrames() returns the {service, id}
\* pairs of the panes in the same order, whatever the item held before;
\* loadFrames() with no item, or with an empty or unparsable item, returns
\* the empty sequence.
C14_SaveLoadRoundTrip ==
  /\ lastOp.op = "saveFrames" =>
       StorageManager_loadFrames(st) = Projection(lastOp.arg)
  /\ lastOp.op \in {"init", "clearFrames", "foreignWrite"} =>
       StorageManager_loadFrames(st) = <<>>

C14_Witness ==
  /\ lastOp.op = "saveFrames"
  /\ Len(lastOp.arg) = 2
  /\ lastOp.arg[1].loaded
  /\ lastOp.arg[1].service.embeddable # lastOp.arg[2].service.embeddable
  /\ pre.localStorage.items[storageKey] = << <<"{">> >>
  /\ Len(StorageManager_loadFrames(st)) = 2

\* C18: while dispatch is disabled a key event invokes no action, does not
\* suppress default handling and changes nothing; enable and disable leave
\* the handler mapping unchanged, and after enable every registered combo
\* dispatches to its action again.
C18_DisabledDispatchIsInert ==
  /\ (lastOp.via = "key" /\ ~ pre.enabled) =>
       /\ lastOp.op = null
       /\ ~ lastOp.prevented
       /\ st = pre
  /\ lastOp.op \in {"enable", "disable"} =>
       /\ st.handlers = pre.handlers
       /\ st.enabled = (lastOp.op = "enable")
  /\ lastOp.op = "enable" =>
       \A e \in KeyEvents :
         KeyboardManager_getKeyCombo(e) \in DOMAIN pre.handlers =>
           KeyboardManager_lookup(st, e) = pre.handlers[KeyboardManager_getKeyCombo(e)]

C18_Witness ==
  /\ lastOp.via = "key"
  /\ ~ pre.enabled
  /\ KeyboardManager_getKeyCombo(lastOp.arg) = "ctrl+shift+c"
  /\ Len(st.frames) >= 1

\* ctrl, alt, shift in that order, then the lowercased key, joined by "+"
CanonicalForm(e) ==
  (IF e.ctrlKey THEN "ctrl+" ELSE "") \o (IF e.altKey THEN "alt+" ELSE "")
    \o (IF e.shiftKey THEN "shift+" ELSE "") \o ToLowerCase(e.key)

\* C19: while enabled, a key event whose canonical form is a registered
\* combo suppresses default handling and invokes, once, the action most
\* recently registered for that combo; any other key event invokes nothing
\* and does not suppress default handling.
C19_DispatchesLatestRegistration ==
  /\ (lastOp.via = "key" /\ pre.enabled) =>
       LET c == CanonicalForm(lastOp.arg)
       IN IF c \in DOMAIN pre.handlers
            THEN /\ lastOp.prevented
                 /\ lastOp.op = pre.handlers[c]
                 /\ st = Invoke(pre, pre.handlers[c])
            ELSE /\ ~ lastOp.prevented
                 /\ lastOp.op = null
                 /\ st = pre
  /\ lastOp.op = "register" =>
       /\ DOMAIN st.handlers = (DOMAIN pre.handlers) \cup {lastOp.arg[1]}
       /\ st.handlers[lastOp.arg[1]] = lastOp.arg[2]
       /\ \A c \in DOMAIN pre.handlers : c # lastOp.arg[1] => st.handlers[c] = pre.handlers[c]
  /\ lastOp.op # "register" => st.handlers = pre.handlers

C19_Witness ==
  /\ lastOp.via = "key"
  /\ lastOp.op = "clearAll"
  /\ CanonicalForm(lastOp.arg) = "ctrl+n"
  /\ lastOp.prevented
  /\ Len(pre.frames) >= 2
  /\ st.frames = <<>>

\* the state s with a working store
Working(s) == [s EXCEPT !.localStorage.throws = {}]

\* the registry mapping, the active id and the rendered panes
View(s) == <<s.frames, s.activeFrameId, s.grid>>

\* the last handler run again from state s
Replay(s) ==
  IF lastOp.via = "key" THEN KeyboardManager_keydown(s, lastOp.arg)
  ELSE IF lastOp.op = "addFrame"
    THEN UIManager_serviceButtonClick(s, CHOOSE sv \in Catalog : sv.name = lastOp.arg)
  ELSE IF lastOp.op = "close" THEN UIManager_removeFrame(s, lastOp.arg)
  ELSE IF lastOp.op = "select" THEN UIManager_containerClick(s, lastOp.arg)
  ELSE IF lastOp.op = "clearAll" THEN UIManager_clearAll(s)
  ELSE s

\* C20: while a method of the store throws, the adapter operations that
\* call it return false (saveFrames, saveActiveFrame, clearFrames) and
\* change nothing, loadFrames returns the empty sequence and
\* loadActiveFrame returns absent; and addPane, close, select, focusNext,
\* focusPrev, removeActive and clearAll leave the registry, the active id
\* and the rendered panes as they would with a working store.
C20_StoreFailureIsSwallowed ==
  /\ Throws(st, "setItem") =>
       /\ ~ StorageManager_saveFramesReturns(st, st.frames)
       /\ ~ StorageManager_saveActiveFrameReturns(st, st.activeFrameId)
       /\ StorageManager_saveFrames(st, st.frames) = st
       /\ StorageManager_saveActiveFrame(st, st.activeFrameId) = st
  /\ Throws(st, "removeItem") =>
       /\ ~ StorageManager_clearFramesReturns(st)
       /\ StorageManager_clearFrames(st) = st
  /\ Throws(st, "getItem") =>
       /\ StorageManager_loadFrames(st) = <<>>
       /\ StorageManager_loadActiveFrame(st) = null
  /\ (lastOp.op \in MutatingOps /\ pre.localStorage.throws # {}) =>
       /\ View(st) = View(Replay(Working(pre)))
       /\ st.localStorage.throws = pre.localStorage.throws
       /\ (lastOp.op # "clearAll" \/ Throws(pre, "removeItem")) =>
            st.localStorage = pre.localStorage

C20_Witness ==
  /\ lastOp.op = "close"
  /\ pre.localStorage.throws = {"setItem"}
  /\ Len(st.frames) >= 1
  /\ StorageManager_loadFrames(Working(st)) # Projection(st.frames)
  /\ View(st) # View(pre)

\* C21: removePane(id) for an id that is not a key of the mapping changes
\* neither the mapping nor the active id, also after setActive was given an
\* id that is not in the mapping.
C21_RemoveAbsentIsNoOp ==
  (lastOp.op = "removePane" /\ lastOp.arg \notin KeySet(pre)) =>
    /\ st.frames = pre.frames
    /\ st.activeFrameId = pre.activeFrameId

\* C22: setActive(id) overwrites the active id with id, whether or not id
\* is a key of the mapping, and changes nothing else; getActive() then
\* returns the pane with that id when there is one and absent otherwise,
\* and it returns absent whenever the active id is null.
C22_SetActiveOverwrites ==
  /\ lastOp.op = "setActive" =>
       /\ st = [pre EXCEPT !.activeFrameId = lastOp.arg]
       /\ FrameManager_getActive(st) =
            SelectSeq(pre.frames, LAMBDA f : f.id = lastOp.arg)
       /\ lastOp.arg \notin KeySet(pre) => FrameManager_getActive(st) = <<>>
  /\ st.activeFrameId = null => FrameManager_getActive(st) = <<>>

C22_Witness ==
  /\ lastOp.op = "setActive"
  /\ lastOp.arg # null
  /\ lastOp.arg \notin KeySet(pre)
  /\ Len(pre.frames) >= 1
  /\ pre.activeFrameId \in KeySet(pre)
  /\ st.activeFrameId = lastOp.arg

\* the stored pane list and the stored active id
Snapshot(s) == s.localStorage.items

\* C23: with at least one pane and an active id that is null or not a key
\* of the mapping, nextPane returns the earliest-inserted pane and prevPane
\* the latest-inserted one; with no pane both return absent, and focusNext
\* and focusPrev change neither the registry, nor the active id, nor the
\* stored snapshot.
C23_NavigationWithoutCurrent ==
  /\ (Len(st.frames) >= 1 /\ st.activeFrameId \notin KeySet(st)) =>
       /\ FrameManager_getNextFrame(st) = <<st.frames[1]>>
       /\ FrameManager_getPrevFrame(st) = <<st.frames[Len(st.frames)]>>
  /\ (Len(pre.frames) >= 1 /\ pre.activeFrameId \notin KeySet(pre)) =>
       /\ lastOp.op = "focusNext" => st.activeFrameId = pre.frames[1].id
       /\ lastOp.op = "focusPrev" => st.activeFrameId = pre.frames[Len(pre.frames)].id
  /\ Len(st.frames) = 0 =>
       /\ FrameManager_getNextFrame(st) = <<>>
       /\ FrameManager_getPrevFrame(st) = <<>>
  /\ (Len(pre.frames) = 0 /\ lastOp.op \in {"focusNext", "focusPrev"}) =>
       /\ st.frames = pre.frames
       /\ st.activeFrameId = pre.activeFrameId
       /\ Snapshot(st) = Snapshot(pre)

C23_Witness ==
  /\ lastOp.op = "focusPrev"
  /\ Len(pre.frames) >= 2
  /\ pre.activeFrameId # null
  /\ pre.activeFrameId \notin KeySet(pre)
  /\ st.activeFrameId = pre.frames[Len(pre.frames)].id

\* focusNext pressed on an empty registry whose active id dangles
C23_WitnessEmpty ==
  /\ lastOp.op = "focusNext"
  /\ Len(pre.frames) = 0
  /\ pre.activeFrameId # null
  /\ st = pre

\* C24: the open-externally control of a pane changes neither the mapping,
\* nor the active id, nor the stored snapshot, and does not select its
\* pane; the close control of a pane removes exactly that pane and never
\* leaves the active id equal to the closed pane's id; a click on the pane
\* body makes that pane's id the active id.
C24_PaneControls ==
  /\ lastOp.op = "openExternally" =>
       /\ st.frames = pre.frames
       /\ st.activeFrameId = pre.activeFrameId
       /\ Snapshot(st) = Snapshot(pre)
       /\ lastOp.opened = <<FrameManager_getFrame(pre, lastOp.arg)[1].url>>
  /\ lastOp.op = "close" =>
       /\ lastOp.arg \in KeySet(pre)
       /\ st.frames = SelectSeq(pre.frames, LAMBDA f : f.id # lastOp.arg)
       /\ st.activeFrameId # lastOp.arg
  /\ lastOp.op = "select" =>
       /\ st.activeFrameId = lastOp.arg
       /\ st.frames = pre.frames

C24_Witness ==
  /\ lastOp.op = "openExternally"
  /\ Len(pre.frames) >= 2
  /\ pre.activeFrameId \in KeySet(pre)
  /\ lastOp.arg # pre.activeFrameId
  /\ st.activeFrameId = pre.activeFrameId

\* the ids of the containers in the grid, in document order
RenderedOrder(s) == [i \in 1..Len(s.grid) |-> s.grid[i].frameId]

\* C25: after every controller operation the rendered panes are exactly the
\* panes of the registry, in insertion order: every pane of the mapping has
\* its view attached to the grid, and no view of a removed or cleared pane
\* is left in the grid.
C25_RenderedIsRegistry ==
  lastOp.op \in ControllerOps =>
    /\ RenderedOrder(st) = Keys(st.frames)
    /\ \A i \in 1..Len(st.frames) : st.frames[i].element
    /\ (lastOp.op \in RemoveOps /\ FrameManager_getFrame(pre, RemovedId) # <<>>) =>
         RemovedId \notin Rendered(st)
    /\ lastOp.op = "clearAll" => st.grid = <<>>

C25_Witness ==
  /\ lastOp.op = "close"
  /\ Len(pre.frames) = 3
  /\ lastOp.arg = pre.frames[2].id
  /\ RenderedOrder(pre) = Keys(pre.frames)
  /\ RenderedOrder(st) = <<pre.frames[1].id, pre.frames[3].id>>

\* C26: within one page session the ids issued to panes are pairwise
\* distinct, so a content-loaded notification for pane p, however it
\* interleaves with addPane, close and clearAll, sets loaded on p alone and
\* only while p is in the registry; one that arrives after p was removed or
\* cleared changes nothing, in particular no pane created later, and no
\* notification changes the keys or the active id.
C26_LoadNotificationHitsOwnPane ==
  /\ \A i, j \in 1..Len(session) : session[i] = session[j] => i = j
  /\ KeySet(st) \subseteq Range(session)
  /\ lastOp.op = "markLoaded" =>
       /\ Keys(st.frames) = Keys(pre.frames)
       /\ st.activeFrameId = pre.activeFrameId
       /\ \A i \in 1..Len(pre.frames) :
            pre.frames[i].id # lastOp.arg => st.frames[i] = pre.frames[i]
       /\ lastOp.arg \notin KeySet(pre) => st = pre

C26_Witness ==
  /\ lastOp.op = "markLoaded"
  /\ lastOp.arg \notin KeySet(pre)
  /\ Len(st.frames) >= 1
  /\ \A i \in 1..Len(st.frames) :
       /\ ~ st.frames[i].loaded
       /\ IndexOf(session, lastOp.arg) < IndexOf(session, st.frames[i].id)

\* C27: after every controller operation (addPane, close, select,
\* focusNext, focusPrev, removeActive, clearAll, loadState), a registry
\* that holds at least one pane has a non-null active id that references
\* one of its panes.
C27_NonEmptyHasActive ==
  (lastOp.op \in ControllerOps /\ Len(st.frames) >= 1) =>
    /\ st.activeFrameId # null
    /\ FrameManager_getActive(st) # <<>>

\* C28: after loadState on a fresh page session over a working store with
\* a stored pane list of n >= 1 entries, the recreated panes have the ids
\* frame-1 .. frame-n in the stored order whatever ids were stored, the
\* active pane is the last recreated pane, and the stored pane list and
\* the stored active id carry the new ids.
C28_LoadStateRenumbers ==
  LET saved == StorageManager_loadFrames(pre)
      n == Len(saved)
  IN (lastOp.op = "loadState" /\ n >= 1) =>
       /\ Keys(st.frames) = [i \in 1..n |-> FrameId(i)]
       /\ Services(st.frames) = [i \in 1..n |-> saved[i].service]
       /\ st.activeFrameId = FrameId(n)
       /\ FrameManager_getActive(st) = <<st.frames[n]>>
       /\ StorageManager_loadFrames(st) = Projection(st.frames)
       /\ StorageManager_loadActiveFrame(st) = FrameId(n)

C28_Witness ==
  LET saved == StorageManager_loadFrames(pre)
  IN /\ lastOp.op = "loadState"
     /\ Len(saved) = 2
     /\ saved[1].id # FrameId(1)
     /\ saved[1].service # saved[2].service
     /\ StorageManager_loadActiveFrame(pre) \notin KeySet(st)
     /\ st.activeFrameId = FrameId(2)

\* C29: removing a pane that is in the registry and is not the active pane
\* leaves the active id unchanged, leaves the id, service and loaded flag
\* of every other pane unchanged, and keeps the remaining panes in their
\* relative insertion order.
C29_RemoveInactiveKeepsRest ==
  (/\ lastOp.op \in RemoveOps
   /\ RemovedId \in KeySet(pre)
   /\ RemovedId # pre.activeFrameId) =>
    /\ st.activeFrameId = pre.activeFrameId
    /\ Keys(st.frames) = SelectSeq(Keys(pre.frames), LAMBDA k : k # RemovedId)
    /\ \A i \in 1..Len(pre.frames) : \A j \in 1..Len(st.frames) :
         pre.frames[i].id = st.frames[j].id =>
           /\ st.frames[j].service = pre.frames[i].service
           /\ st.frames[j].loaded = pre.frames[i].loaded

C29_Witness ==
  /\ lastOp.op = "close"
  /\ Len(pre.frames) = 3
  /\ lastOp.arg = pre.frames[1].id
  /\ pre.activeFrameId = pre.frames[3].id
  /\ st.activeFrameId = pre.frames[3].id
  /\ st.frames[1].loaded
  /\ ~ st.frames[2].loaded

====
